---- MODULE Spec2Model ----
(***************************************************************************)
(* Model of the lamp controller in src/src/LampControlEsp8266.cpp: the     *)
(* light-condition debounce (updateLightValue / checkSwitchConditions),    *)
(* the relay commands, and the setup / loop / callback skeleton around     *)
(* them.                                                                   *)
(***************************************************************************)
EXTENDS Integers, Sequences, FiniteSets

\* ------------------------------------------------------------------ bounds
\* Ticks modelled per boot (the timer itself never stops).
MaxTicks == 6
\* Delays modelled: 1..MaxDelay out of the parameter's range 1..DelayMax.
MaxDelay == 3

\* ------------------------------------------------------- program constants
LightLevelInit == 1023   \* int lightLevel = 1023
LightLevelMin == 0       \* light level 0 (dark) ..
LightLevelMax == 1023    \* .. 1023 (bright)
DelayDefault == 30       \* settingDelayParam defaultValue(30)
DelayMin == 1            \* settingDelayParam min(1)
DelayMax == 100          \* settingDelayParam max(100)
DarkLevelDefault == 25   \* settingDarkLevelParam defaultValue(25)
DarkLevelMin == 1        \* settingDarkLevelParam min(1)
DarkLevelMax == 100      \* settingDarkLevelParam max(100)

\* Stored configurations that iotWebConf.init() may load.
DelaySettings == DelayMin..(IF MaxDelay < DelayMax THEN MaxDelay ELSE DelayMax)
DarkLevelSettings == {DarkLevelMin, DarkLevelDefault, DarkLevelMax}

\* Values analogRead(A0) returns in the model: always both sides of the
\* threshold boundary; with the default threshold a clearly dark and a clearly
\* bright level, with the other thresholds the two ends of the sensor range.
SensorLevels(dark) ==
    {dark, dark + 1} \cup
        (IF dark = DarkLevelDefault THEN {10, 30} ELSE {LightLevelMin, LightLevelMax})

VARIABLES
    relayState,                \* int relayState: 0 = off, 1 = on
    lightConditionDark,        \* bool lightConditionDark
    lightLevel,                \* int lightLevel
    currLightConditionCycles,  \* int currLightConditionCycles
    needReset,                 \* boolean needReset
    connected,                 \* boolean connected
    settingDelay,              \* settingDelayParam.value()
    settingDarkLevel,          \* settingDarkLevelParam.value()
    pinD5,                     \* relay pin level
    pinD8,                     \* LED pin level
    pc,                        \* "boot" before setup() has run, "loop" after
    readings,                  \* history: the values read by analogRead since boot
    issued,                    \* history: relay commands called by the last setup / tick
    relayChangedAt             \* history: tick of the last relay change (0: setup)

vars == <<relayState, lightConditionDark, lightLevel, currLightConditionCycles,
          needReset, connected, settingDelay, settingDarkLevel, pinD5, pinD8,
          pc, readings, issued, relayChangedAt>>

PinLevels == {"LOW", "HIGH"}

\* ------------------------------------------------------- updateLightValue
\* if (lightLevel <= darkLevelSetting) newLightConditionDark = true; else false
NewDarkStrict(level, darkLevelSetting) == level < darkLevelSetting
NewLightConditionDark(level, darkLevelSetting) == level <= darkLevelSetting

\* if (new == old) cycles = cycles + 1; else cycles = 0;
CountedCyclesRestartAtOne(newDark, oldDark, cycles) ==
    IF newDark = oldDark THEN cycles + 1 ELSE 1
CountedCyclesNoReset(newDark, oldDark, cycles) ==
    IF newDark = oldDark THEN cycles + 1 ELSE cycles
CountedCycles(newDark, oldDark, cycles) ==
    IF newDark = oldDark THEN cycles + 1 ELSE 0

\* if (cycles > required) cycles = required;
LimitedCyclesNoLimit(cycles, required) == cycles
LimitedCycles(cycles, required) ==
    IF cycles > required THEN required ELSE cycles

\* ------------------------------------------------- checkSwitchConditions
\* boolean switchAllowedByTime = currLightConditionCycles >= cyclesRequired
SwitchAllowedAlways(cycles, required) == TRUE
SwitchAllowedStrict(cycles, required) == cycles > required
SwitchAllowedByTime(cycles, required) == cycles >= required

\* ------------------------------------------------------------------- Init
\* The globals as their initialisers leave them, before setup() runs.
Init ==
    /\ relayState = 0
    /\ lightConditionDark = FALSE
    /\ lightLevel = LightLevelInit
    /\ currLightConditionCycles = 0
    /\ needReset = FALSE
    /\ connected = FALSE
    /\ settingDelay = DelayDefault
    /\ settingDarkLevel = DarkLevelDefault
    /\ pinD5 \in PinLevels
    /\ pinD8 \in PinLevels
    /\ pc = "boot"
    /\ readings = <<>>
    /\ issued = <<>>
    /\ relayChangedAt = 0

\* ---------------------------------------------------------------- actions
\* What the relay commands read and write: the two pins and relayState.
RelayOutputs == [relayState |-> relayState, pinD5 |-> pinD5, pinD8 |-> pinD8]

\* The three assignments of switchRelayOn().
AfterSwitchRelayOnToggle(out) ==
    [out EXCEPT !.pinD5 = IF out.pinD5 = "LOW" THEN "HIGH" ELSE "LOW",
                !.pinD8 = IF out.pinD8 = "HIGH" THEN "LOW" ELSE "HIGH",
                !.relayState = 1 - out.relayState]
AfterSwitchRelayOn(out) ==
    [out EXCEPT !.pinD5 = "LOW", !.pinD8 = "HIGH", !.relayState = 1]

\* The three assignments of switchRelayOff().
AfterSwitchRelayOff(out) ==
    [out EXCEPT !.pinD5 = "HIGH", !.pinD8 = "LOW", !.relayState = 0]

\* switchRelayOn()
SwitchRelayOn ==
    LET after == AfterSwitchRelayOn(RelayOutputs)
    IN  /\ pinD5' = after.pinD5
        /\ pinD8' = after.pinD8
        /\ relayState' = after.relayState
        /\ issued' = <<"on">>

\* switchRelayOff()
SwitchRelayOff ==
    LET after == AfterSwitchRelayOff(RelayOutputs)
    IN  /\ pinD5' = after.pinD5
        /\ pinD8' = after.pinD8
        /\ relayState' = after.relayState
        /\ issued' = <<"off">>

\* setup(): iotWebConf.init() loads the stored parameters, then
\* switchRelayOff() and timer.every(1000L, checkSwitchConditions).
SetupWithoutRelayOff ==
    /\ pc = "boot"
    /\ \E d \in DelaySettings, k \in DarkLevelSettings :
          /\ settingDelay' = d
          /\ settingDarkLevel' = k
    /\ relayChangedAt' = 0
    /\ pc' = "loop"
    /\ UNCHANGED <<lightConditionDark, lightLevel, currLightConditionCycles,
                   needReset, connected, readings, relayState, pinD5, pinD8,
                   issued>>
Setup ==
    /\ pc = "boot"
    /\ \E d \in DelaySettings, k \in DarkLevelSettings :
          /\ settingDelay' = d
          /\ settingDarkLevel' = k
    /\ SwitchRelayOff
    /\ relayChangedAt' = 0
    /\ pc' = "loop"
    /\ UNCHANGED <<lightConditionDark, lightLevel, currLightConditionCycles,
                   needReset, connected, readings>>

\* updateLightValue() with analogRead(A0) returning level.
UpdateLightValue(level) ==
    LET newLightConditionDark == NewLightConditionDark(level, settingDarkLevel)
        counted == CountedCycles(newLightConditionDark, lightConditionDark,
                                 currLightConditionCycles)
    IN  /\ lightLevel' = level
        /\ lightConditionDark' = newLightConditionDark
        /\ currLightConditionCycles' = LimitedCycles(counted, settingDelay)
        /\ readings' = Append(readings, level)

\* checkSwitchConditions(argument) with analogRead(A0) returning level.
CheckSwitchConditionsIgnoringRelay(level) ==
    /\ UpdateLightValue(level)
    /\ LET switchAllowedByTime ==
               SwitchAllowedByTime(currLightConditionCycles', settingDelay)
       IN  IF lightConditionDark' /\ switchAllowedByTime
             THEN SwitchRelayOn
             ELSE IF ~lightConditionDark' /\ switchAllowedByTime
                    THEN SwitchRelayOff
                    ELSE UNCHANGED <<relayState, pinD5, pinD8>> /\ issued' = <<>>
CheckSwitchConditions(level) ==
    /\ UpdateLightValue(level)
    /\ LET switchAllowedByTime ==
               SwitchAllowedByTime(currLightConditionCycles', settingDelay)
       IN  IF relayState = 0
             THEN IF lightConditionDark' /\ switchAllowedByTime
                    THEN SwitchRelayOn
                    ELSE UNCHANGED <<relayState, pinD5, pinD8>> /\ issued' = <<>>
             ELSE IF ~lightConditionDark' /\ switchAllowedByTime
                    THEN SwitchRelayOff
                    ELSE UNCHANGED <<relayState, pinD5, pinD8>> /\ issued' = <<>>

\* loop(): needReset is false, timer.tick() finds the second elapsed.
TimerTickBeforeReset ==
    /\ pc = "loop"
    /\ Len(readings) < MaxTicks
    /\ \E level \in SensorLevels(settingDarkLevel) : CheckSwitchConditions(level)
    /\ relayChangedAt' = IF relayState' # relayState
                            THEN Len(readings')
                            ELSE relayChangedAt
    /\ UNCHANGED <<needReset, connected, settingDelay, settingDarkLevel, pc>>
TimerTick ==
    /\ pc = "loop"
    /\ ~needReset
    /\ Len(readings) < MaxTicks
    /\ \E level \in SensorLevels(settingDarkLevel) : CheckSwitchConditions(level)
    /\ relayChangedAt' = IF relayState' # relayState
                            THEN Len(readings')
                            ELSE relayChangedAt
    /\ UNCHANGED <<needReset, connected, settingDelay, settingDarkLevel, pc>>

\* loop(): needReset is true: delay(1000); ESP.restart().
Restart ==
    /\ pc = "loop"
    /\ needReset
    /\ relayState' = 0
    /\ lightConditionDark' = FALSE
    /\ lightLevel' = LightLevelInit
    /\ currLightConditionCycles' = 0
    /\ needReset' = FALSE
    /\ connected' = FALSE
    /\ settingDelay' = DelayDefault
    /\ settingDarkLevel' = DarkLevelDefault
    /\ pinD5' \in PinLevels
    /\ pinD8' \in PinLevels
    /\ pc' = "boot"
    /\ readings' = <<>>
    /\ issued' = <<>>
    /\ relayChangedAt' = 0

\* configSaved(), called from iotWebConf.doLoop().
ConfigSaved ==
    /\ pc = "loop"
    /\ ~needReset
    /\ needReset' = TRUE
    /\ UNCHANGED <<relayState, lightConditionDark, lightLevel,
                   currLightConditionCycles, connected, settingDelay,
                   settingDarkLevel, pinD5, pinD8, pc, readings, issued,
                   relayChangedAt>>

\* wifiConnected(), called from iotWebConf.doLoop().
WifiConnected ==
    /\ pc = "loop"
    /\ ~needReset
    /\ ~connected
    /\ connected' = TRUE
    /\ UNCHANGED <<relayState, lightConditionDark, lightLevel,
                   currLightConditionCycles, needReset, settingDelay,
                   settingDarkLevel, pinD5, pinD8, pc, readings, issued,
                   relayChangedAt>>

\* handleRoot(), called from iotWebConf.doLoop(): builds the status page from
\* the two parameters, relayState, lightLevel and currLightConditionCycles and
\* sends it; it assigns to no global.
HandleRootClearsCycles ==
    /\ pc = "loop"
    /\ ~needReset
    /\ currLightConditionCycles' = 0
    /\ UNCHANGED <<relayState, lightConditionDark, lightLevel, needReset,
                   connected, settingDelay, settingDarkLevel, pinD5, pinD8,
                   pc, readings, issued, relayChangedAt>>
HandleRoot ==
    /\ pc = "loop"
    /\ ~needReset
    /\ UNCHANGED vars

\* loop(): needReset is false, timer.tick() finds no second elapsed and
\* iotWebConf.doLoop() has no callback to run.
LoopIdle ==
    /\ pc = "loop"
    /\ ~needReset
    /\ UNCHANGED vars

Next ==
    \/ Setup
    \/ TimerTick
    \/ Restart
    \/ ConfigSaved
    \/ WifiConnected
    \/ HandleRoot
    \/ LoopIdle

Spec == Init /\ [][Next]_vars

\* ------------------------------------------------- vocabulary of the claims
Ticks == Len(readings)
\* The classification of the reading taken on tick i.
Classified(i) == readings[i] <= settingDarkLevel
\* The classification held before tick i (bright before the first tick).
ClassifiedBefore(i) == IF i = 1 THEN FALSE ELSE Classified(i - 1)
RelayOf(dark) == IF dark THEN 1 ELSE 0
Min(a, b) == IF a < b THEN a ELSE b
\* The last n ticks all have the classification of the last tick.
ConstantWindow(n) ==
    /\ n >= 1
    /\ Ticks >= n
    /\ \A i \in (Ticks - n + 1)..Ticks : Classified(i) = Classified(Ticks)
\* Number of consecutive ticks, ending with the last, with its classification.
Streak == Cardinality({n \in 1..Ticks : ConstantWindow(n)})
\* Number of consecutive ticks, ending with the last, on which the
\* classification was the one held before that tick.
UnchangedTicks ==
    Cardinality({n \in 1..Ticks :
                    \A i \in (Ticks - n + 1)..Ticks : Classified(i) = ClassifiedBefore(i)})
IsPrefix(s, t) == Len(s) <= Len(t) /\ \A i \in 1..Len(s) : s[i] = t[i]
ScenarioConfig == pc = "loop" /\ settingDarkLevel = 25 /\ settingDelay = 3
\* A step that is one call of checkSwitchConditions.
TickStep == pc = "loop" /\ pc' = "loop" /\ Len(readings') = Len(readings) + 1

\* --------------------------------------------------------------------- C1
\* C1 as stated: whenever the last requiredStableTicks ticks had one
\* classification, the relay equals that classification.
C1_WindowOfDelayTicks ==
    (pc = "loop" /\ ConstantWindow(settingDelay))
        => relayState = RelayOf(lightConditionDark)

\* C1 (amended): whenever the last requiredStableTicks + 1 ticks had one
\* classification, the relay equals that classification; and a tick that
\* extends such a window does not change the relay.
C1_WindowMatches ==
    (pc = "loop" /\ ConstantWindow(settingDelay + 1))
        => relayState = RelayOf(lightConditionDark)
C1_WindowStays ==
    (TickStep /\ ConstantWindow(settingDelay + 1)
              /\ lightConditionDark' = lightConditionDark)
        => relayState' = relayState
C1_StableWindowSetsRelay == [](C1_WindowMatches) /\ [][C1_WindowStays]_vars

\* The relay was switched on by a window that follows a bright tick.
C1_Witness ==
    /\ pc = "loop"
    /\ Ticks = settingDelay + 2
    /\ ConstantWindow(settingDelay + 1)
    /\ ~Classified(1)
    /\ Classified(Ticks)
    /\ relayState = 1

\* --------------------------------------------------------------------- C2
\* C2: a tick changes the relay only if the counter it leaves is at least
\* requiredStableTicks, and then from off to on with a dark classification or
\* from on to off with a bright one.
C2_ChangeOnlyWhenAllowed ==
    [][(TickStep /\ relayState' # relayState)
          => /\ currLightConditionCycles' >= settingDelay
             /\ \/ relayState = 0 /\ relayState' = 1 /\ lightConditionDark'
                \/ relayState = 1 /\ relayState' = 0 /\ ~lightConditionDark']_vars

\* The relay went on and was switched off again.
C2_Witness ==
    /\ pc = "loop"
    /\ settingDelay = 1
    /\ Ticks = 4
    /\ Classified(1) /\ Classified(2) /\ ~Classified(3) /\ ~Classified(4)
    /\ relayState = 0
    /\ pinD5 = "HIGH"

\* --------------------------------------------------------------------- C3
\* C3: the counter is never negative and never above requiredStableTicks.
C3_CyclesWithinDelay ==
    /\ currLightConditionCycles >= 0
    /\ currLightConditionCycles <= settingDelay

\* More unchanged ticks than the delay: the limit has acted.
C3_Witness ==
    /\ pc = "loop"
    /\ UnchangedTicks > settingDelay
    /\ currLightConditionCycles = settingDelay

\* --------------------------------------------------------------------- C4
\* C4 as stated: after the readings 10, 10, 10 the relay is on.
C4_OnAfterThreeTicks ==
    (ScenarioConfig /\ readings = <<10, 10, 10>>) => relayState = 1

\* C4 (amended): after the readings 10, 10, 10 the relay is still off; a
\* fourth reading of 10 switches it on.
C4_OnAfterFourTicks ==
    ScenarioConfig =>
        /\ (Ticks >= 1 /\ IsPrefix(readings, <<10, 10, 10>>)) => relayState = 0
        /\ readings = <<10, 10, 10, 10>> => relayState = 1

C4_Witness ==
    /\ ScenarioConfig
    /\ readings = <<10, 10, 10, 10>>
    /\ relayState = 1
    /\ pinD5 = "LOW"

\* --------------------------------------------------------------------- C5
\* C5 as stated: after the readings 30, 10, 10 the relay is off and after
\* 30, 10, 10, 10 it is on.
C5_OnAtTickFour ==
    ScenarioConfig =>
        /\ (Ticks >= 1 /\ IsPrefix(readings, <<30, 10, 10>>)) => relayState = 0
        /\ readings = <<30, 10, 10, 10>> => relayState = 1

\* C5 (amended): the relay is off after each of the readings 30, 10, 10, 10;
\* a fifth reading of 10 switches it on.
C5_OnAtTickFive ==
    ScenarioConfig =>
        /\ (Ticks >= 1 /\ IsPrefix(readings, <<30, 10, 10, 10>>)) => relayState = 0
        /\ readings = <<30, 10, 10, 10, 10>> => relayState = 1

C5_Witness ==
    /\ ScenarioConfig
    /\ readings = <<30, 10, 10, 10, 10>>
    /\ relayState = 1
    /\ currLightConditionCycles = 3

\* --------------------------------------------------------------------- C6
\* C6: with the readings 10, 10, 30, 10, 10 the counter is 0 after tick 3
\* (it was 1 after tick 2) and the relay is off after each of the five ticks.
C6_StreakBroken ==
    ScenarioConfig =>
        /\ (Ticks >= 1 /\ IsPrefix(readings, <<10, 10, 30, 10, 10>>)) => relayState = 0
        /\ readings = <<10, 10>> => currLightConditionCycles = 1
        /\ readings = <<10, 10, 30>> => currLightConditionCycles = 0

C6_Witness ==
    /\ ScenarioConfig
    /\ readings = <<10, 10, 30, 10, 10>>
    /\ relayState = 0
    /\ lightConditionDark

\* --------------------------------------------------------------------- C7
\* C7: while every tick since boot has classified differently from the tick
\* before it, the relay is off.
C7_Oscillating == \A i \in 2..Ticks : Classified(i) # Classified(i - 1)
C7_OscillationKeepsRelayOff ==
    (pc = "loop" /\ C7_Oscillating) => relayState = 0

\* A delay of 1 and an oscillation that starts dark.
C7_Witness ==
    /\ pc = "loop"
    /\ settingDelay = 1
    /\ Ticks >= 4
    /\ C7_Oscillating
    /\ Classified(1)
    /\ relayState = 0

\* --------------------------------------------------------------------- C8
\* C8 as stated: after every tick the counter is the length of the current
\* streak of equal classifications, clamped to requiredStableTicks.
C8_CountsStreak ==
    (pc = "loop" /\ Ticks >= 1)
        => currLightConditionCycles = Min(Streak, settingDelay)

\* C8 (amended): after every tick the counter is the number of consecutive
\* ticks, ending with this one, on which the classification was the one held
\* before that tick (bright before the first tick), clamped to
\* requiredStableTicks; on the first tick of a new classification it is 0.
C8_CountsUnchangedTicks ==
    (pc = "loop" /\ Ticks >= 1)
        => /\ currLightConditionCycles = Min(UnchangedTicks, settingDelay)
           /\ Classified(Ticks) # ClassifiedBefore(Ticks)
                 => currLightConditionCycles = 0

\* A new classification held for three ticks, below the clamp.
C8_Witness ==
    /\ pc = "loop"
    /\ settingDelay = 3
    /\ Ticks >= 4
    /\ Streak = 3
    /\ currLightConditionCycles = 2

\* --------------------------------------------------------------------- C9
\* C9: a tick whose classification differs from the stored one sets the
\* counter to 0, any other tick sets it to min(counter + 1,
\* requiredStableTicks); setup and the callbacks leave the counter alone.
C9_CounterUpdate ==
    [][/\ TickStep =>
            currLightConditionCycles' =
                IF (lightLevel' <= settingDarkLevel) # lightConditionDark
                  THEN 0
                  ELSE Min(currLightConditionCycles + 1, settingDelay)
       /\ (~TickStep /\ pc' = "loop") =>
            currLightConditionCycles' = currLightConditionCycles]_vars

\* A reset followed by increments up to the clamp.
C9_Witness ==
    /\ pc = "loop"
    /\ settingDelay = 2
    /\ Ticks = 5
    /\ Classified(1) # Classified(2)
    /\ ConstantWindow(4)
    /\ currLightConditionCycles = 2

\* -------------------------------------------------------------------- C10
\* C10: after every tick lightConditionDark is true exactly when the reading
\* of that tick is at most the dark level.
C10_DarkIffAtMostThreshold ==
    (pc = "loop" /\ Ticks >= 1)
        => /\ lightLevel = readings[Ticks]
           /\ lightConditionDark <=> (lightLevel <= settingDarkLevel)
           /\ lightLevel = settingDarkLevel => lightConditionDark
           /\ lightLevel = settingDarkLevel + 1 => ~lightConditionDark

\* The boundary reading after the reading just above it.
C10_Witness ==
    /\ pc = "loop"
    /\ Ticks >= 2
    /\ readings[Ticks - 1] = settingDarkLevel + 1
    /\ lightLevel = settingDarkLevel
    /\ lightConditionDark
    /\ settingDarkLevel = DarkLevelMax

\* -------------------------------------------------------------------- C11
\* C11: no reading is taken before setup() has run, and when the first tick
\* of a boot starts, the last relay command was switchRelayOff: relayState is
\* 0, the relay pin is HIGH and the LED pin LOW, whatever the pins were at
\* boot.
C11_RelayOffBeforeFirstTick ==
    /\ [](pc = "boot" => (readings = <<>> /\ relayState = 0))
    /\ []((pc = "loop" /\ readings = <<>>)
             => (issued = <<"off">> /\ relayState = 0
                 /\ pinD5 = "HIGH" /\ pinD8 = "LOW"))
    /\ [][(readings' # readings /\ pc' = "loop")
             => /\ pc = "loop"
                /\ readings = <<>> => (issued = <<"off">> /\ pinD5 = "HIGH")]_vars

\* The first tick of a boot has run, after the off command of setup().
C11_Witness ==
    /\ pc = "loop"
    /\ Ticks = 1
    /\ lightConditionDark
    /\ relayState = 0
    /\ pinD5 = "HIGH"
    /\ relayChangedAt = 0

\* -------------------------------------------------------------------- C12
\* C12: once needReset is set no tick runs, the only step left is the restart;
\* and no step between setup and restart changes the two parameter values.
C12_NoTickAfterConfigSaved ==
    [][/\ needReset => (pc' = "boot" /\ readings' = <<>>)
       /\ TickStep => ~needReset
       /\ (pc = "loop" /\ pc' = "loop")
             => (settingDelay' = settingDelay
                 /\ settingDarkLevel' = settingDarkLevel)]_vars

\* The configuration was saved after ticks had run.
C12_Witness ==
    /\ pc = "loop"
    /\ needReset
    /\ Ticks >= 2
    /\ relayState = 1

\* -------------------------------------------------------------------- C13
\* C13: after setup, a step that takes no reading and does not restart
\* (handleRoot, configSaved, wifiConnected, an idle loop iteration) leaves
\* lightLevel, lightConditionDark, currLightConditionCycles and relayState
\* unchanged.
C13_NonTickStep ==
    /\ pc = "loop"
    /\ pc' = "loop"
    /\ readings' = readings
C13_OnlyTickMutates ==
    [][(C13_NonTickStep \/ HandleRoot \/ ConfigSaved \/ WifiConnected \/ LoopIdle)
          => UNCHANGED <<lightLevel, lightConditionDark,
                         currLightConditionCycles, relayState>>]_vars

\* Both callbacks have run on a controller whose relay is on.
C13_Witness ==
    /\ pc = "loop"
    /\ connected
    /\ needReset
    /\ relayState = 1
    /\ currLightConditionCycles = settingDelay
    /\ lightLevel = settingDarkLevel

\* -------------------------------------------------------------------- C14
\* C14: in every reachable state, switchRelayOn called with the relay on
\* changes neither relayState nor the pins, switchRelayOff called with the
\* relay off does not change relayState (nor, after setup, the pins), and
\* either command called twice gives what it gives called once.
C14_CommandsIdempotent ==
    LET cur == RelayOutputs
        on  == AfterSwitchRelayOn(cur)
        off == AfterSwitchRelayOff(cur)
    IN  /\ AfterSwitchRelayOn(on) = on
        /\ AfterSwitchRelayOff(off) = off
        /\ relayState = 1 => on = cur
        /\ relayState = 0 => off.relayState = cur.relayState
        /\ (relayState = 0 /\ pc = "loop") => off = cur

\* switchRelayOn has run and the relay is on.
C14_Witness ==
    /\ pc = "loop"
    /\ issued = <<"on">>
    /\ relayState = 1
    /\ AfterSwitchRelayOn(RelayOutputs) = RelayOutputs

\* -------------------------------------------------------------------- C15
\* C15: a tick calls at most one relay command, switchRelayOn only with the
\* relay off and switchRelayOff only with the relay on, so that every command
\* of a tick changes relayState.
C15_CommandOnlyOnChange ==
    [][TickStep =>
          /\ Len(issued') <= 1
          /\ issued' = <<"on">> => (relayState = 0 /\ relayState' = 1)
          /\ issued' = <<"off">> => (relayState = 1 /\ relayState' = 0)
          /\ issued' = <<>> => relayState' = relayState]_vars

\* A tick with the counter at the delay and the relay agreeing: no command.
C15_Witness ==
    /\ pc = "loop"
    /\ Ticks >= settingDelay + 2
    /\ ConstantWindow(settingDelay + 2)
    /\ lightConditionDark
    /\ relayState = 1
    /\ issued = <<>>

\* -------------------------------------------------------------------- C16
\* C16: in every state, a counter that has reached requiredStableTicks comes
\* with a relay that equals the classification.
C16_SaturatedMeansAgreed ==
    currLightConditionCycles >= settingDelay
        => relayState = RelayOf(lightConditionDark)

\* The counter is saturated and the relay was switched off again.
C16_Witness ==
    /\ pc = "loop"
    /\ currLightConditionCycles = settingDelay
    /\ ~lightConditionDark
    /\ relayState = 0
    /\ relayChangedAt > 0

\* -------------------------------------------------------------------- C17
\* C17: a tick that changes the relay comes at least requiredStableTicks + 1
\* ticks after the previous relay change of the boot, or after setup.
C17_MinimumDwell ==
    [][(TickStep /\ relayState' # relayState)
          => Len(readings') - relayChangedAt >= settingDelay + 1]_vars

\* The relay went on and, as early as possible, off again.
C17_Witness ==
    /\ pc = "loop"
    /\ relayState = 0
    /\ relayChangedAt = 2 * (settingDelay + 1)
    /\ Ticks = relayChangedAt

\* -------------------------------------------------------------------- C18
\* C18: once the current classification has lasted more than
\* requiredStableTicks ticks, after whatever came before, the relay equals it,
\* and it was set to it no later than the tick requiredStableTicks + 1 of that
\* streak.
C18_StreakStart == Ticks - Streak
C18_BoundedResponse ==
    (pc = "loop" /\ Ticks >= 1 /\ Streak >= settingDelay + 1)
        => /\ relayState = RelayOf(Classified(Ticks))
           /\ relayChangedAt <= C18_StreakStart + settingDelay + 1

\* A streak that began after other ticks and switched the relay off.
C18_Witness ==
    /\ pc = "loop"
    /\ Streak = settingDelay + 1
    /\ C18_StreakStart >= 2
    /\ ~Classified(Ticks)
    /\ relayState = 0
    /\ relayChangedAt = Ticks

====
